---- MODULE Spec2Model ----
(***************************************************************************)
(* Model of ExpiringQueue<T> (src/lib.rs): a std BinaryHeap of             *)
(* QueueElement ordered by reversed insertion time, with lazy eviction      *)
(* (clear_oldest) run at the start of push, len, is_empty, peek and pop.    *)
(* The clock is the value Instant::now() would return; it never decreases   *)
(* and two consecutive calls may sample the same value.                     *)
(***************************************************************************)
EXTENDS Integers, Sequences, FiniteSets, TLC

\* ---- bounds of the model ----
MaxTime == 3        \* the clock runs over 0..MaxTime
MaxPushes == 3      \* at most this many push calls in a run
MaxAge == 2         \* max_age is chosen in 0..MaxAge at construction
MaxCapacity == 1    \* with_capacity is called with a hint in 0..MaxCapacity
MaxDrainPushes == 4 \* push calls in a run of SpecDrain (pushes, pops, time)
MaxLivePushes == 1  \* push calls in a run of SpecLive

Values == {"a", "b"}

VARIABLES
    heap,       \* ExpiringQueue.heap: the BinaryHeap's backing Vec, root first
    cap,        \* capacity of the backing Vec
    max_age,    \* ExpiringQueue.max_age
    clock,      \* what Instant::now() returns
    last,       \* the last completed call: its name, sampled time and result
    pre,        \* heap as it was when the last call started
    pushes,     \* number of push calls so far
    newest,     \* the element admitted by the most recent push, if any
    drain,      \* insertion times returned by pop since the last push
    sinceClear  \* TRUE from a clear until the next push

vars == <<heap, cap, max_age, clock, last, pre, pushes, newest, drain,
          sinceClear>>

\* Option<T>: None is the empty set, Some(x) is {x}
None == {}
Some(x) == {x}

Range(s) == {s[i] : i \in 1..Len(s)}

\* ---- QueueElement ----
\* struct QueueElement { time, value }; seq is the position of the push that
\* created the element in the run, kept to tell equal-time elements apart.
QueueElement(time, value, seq) == [time |-> time, value |-> value, seq |-> seq]

\* impl PartialEq: equal iff the times are equal
eq(self, other) == self.time = other.time

\* a plausible slip: natural order instead of the reversed one
cmp_natural(self, other) ==
    IF self.time < other.time THEN "Less"
    ELSE IF self.time = other.time THEN "Equal"
    ELSE "Greater"

\* impl Ord: other.time.cmp(&self.time)
cmp(self, other) ==
    IF other.time < self.time THEN "Less"
    ELSE IF other.time = self.time THEN "Equal"
    ELSE "Greater"

\* impl PartialOrd: partial_cmp is Some(cmp); a <= b as BinaryHeap uses it
le(a, b) == cmp(a, b) # "Greater"

\* ---- std BinaryHeap over the backing Vec (positions are 0-based) ----
RECURSIVE sift_up_from(_, _, _, _)
sift_up_from(data, elt, start, pos) ==
    IF pos > start
    THEN LET parent == (pos - 1) \div 2 IN
         IF le(elt, data[parent + 1])
         THEN [data EXCEPT ![pos + 1] = elt]
         ELSE sift_up_from([data EXCEPT ![pos + 1] = data[parent + 1]],
                           elt, start, parent)
    ELSE [data EXCEPT ![pos + 1] = elt]

sift_up(data, start, pos) == sift_up_from(data, data[pos + 1], start, pos)

RECURSIVE sift_down_from(_, _, _, _, _)
sift_down_from(data, elt, start, hole, child) ==
    LET end == Len(data)
        limit == IF end >= 2 THEN end - 2 ELSE 0
    IN  IF child <= limit
        THEN LET c == IF le(data[child + 1], data[child + 2])
                      THEN child + 1 ELSE child
             IN  sift_down_from([data EXCEPT ![hole + 1] = data[c + 1]],
                                elt, start, c, 2 * c + 1)
        ELSE IF child = end - 1
        THEN sift_up_from([data EXCEPT ![hole + 1] = data[child + 1]],
                          elt, start, child)
        ELSE sift_up_from(data, elt, start, hole)

\* slip: the slot moved to the root is left there
sift_down_none(data, pos) == data

sift_down_to_bottom(data, pos) ==
    sift_down_from(data, data[pos + 1], pos, pos, 2 * pos + 1)

\* Vec growth on push when the Vec is full: amortized doubling, at least 4
grow(c, len) ==
    IF len < c THEN c
    ELSE LET dbl == IF 2 * c > len + 1 THEN 2 * c ELSE len + 1
         IN  IF dbl > 4 THEN dbl ELSE 4

heap_push(data, item) ==
    LET old_len == Len(data) IN sift_up(Append(data, item), 0, old_len)

heap_peek(data) == IF data = <<>> THEN None ELSE Some(data[1])

\* slip: hands out the last slot of the Vec instead of the root
heap_pop_last(data) ==
    IF data = <<>> THEN [heap |-> data, ret |-> None]
    ELSE [heap |-> SubSeq(data, 1, Len(data) - 1),
          ret |-> Some(data[Len(data)])]

\* BinaryHeap::pop: take the last slot, swap it with the root, sift down
heap_pop(data) ==
    IF data = <<>> THEN [heap |-> data, ret |-> None]
    ELSE LET item == data[Len(data)]
             rest == SubSeq(data, 1, Len(data) - 1)
         IN  IF rest = <<>> THEN [heap |-> rest, ret |-> Some(item)]
             ELSE [heap |-> sift_down_to_bottom([rest EXCEPT ![1] = item], 0),
                   ret |-> Some(rest[1])]

\* ---- ExpiringQueue ----
\* now - el.time on Instants (saturating at zero)
age(now, time) == IF now >= time THEN now - time ELSE 0

\* slip: evicts at the boundary age = max_age too
RECURSIVE clear_oldest_ge(_, _)
clear_oldest_ge(data, now) ==
    IF data # <<>> /\ age(now, data[1].time) >= max_age
    THEN clear_oldest_ge(heap_pop(data).heap, now)
    ELSE data

\* slip: never evicts
clear_oldest_none(data, now) == data

RECURSIVE clear_oldest(_, _)
clear_oldest(data, now) ==
    IF data # <<>> /\ age(now, data[1].time) > max_age
    THEN clear_oldest(heap_pop(data).heap, now)
    ELSE data

\* slip: reports the stored count without the eviction
push_stale_len(data, value, now, seq) ==
    LET h == heap_push(clear_oldest(data, now), QueueElement(now, value, seq))
    IN  [heap |-> h, ret |-> Len(data) + 1]

\* slip: the element is inserted first and the eviction samples the clock again
push_resample(data, value, now, seq) ==
    LET h == clear_oldest(heap_push(data, QueueElement(now, value, seq)),
                          now + 1)
    IN  [heap |-> h, ret |-> Len(h)]

\* slip: a full Vec refuses the element instead of growing
push_no_grow(data, value, now, seq) ==
    LET h0 == clear_oldest(data, now)
        h == heap_push(h0, QueueElement(now, value, seq))
    IN  IF Len(h0) >= cap THEN [heap |-> h0, ret |-> Len(h0)]
        ELSE [heap |-> h, ret |-> Len(h)]

push(data, value, now, seq) ==
    LET h == heap_push(clear_oldest(data, now), QueueElement(now, value, seq))
    IN  [heap |-> h, ret |-> Len(h)]

\* slip: clear only drops what has expired
clear_expired_only(data) == clear_oldest(data, clock)

clear(data) == <<>>

len(data, now) ==
    LET h == clear_oldest(data, now) IN [heap |-> h, ret |-> Len(h)]

is_empty(data, now) ==
    LET r == len(data, now) IN [heap |-> r.heap, ret |-> (r.ret = 0)]

\* slip: peek without the eviction pass
peek_no_evict(data, now) == [heap |-> data, ret |-> heap_peek(data)]

peek(data, now) ==
    LET h == clear_oldest(data, now) IN [heap |-> h, ret |-> heap_peek(h)]

\* slip: pop hands out the root without removing it
pop_keep(data, now) ==
    LET h == clear_oldest(data, now) IN [heap |-> h, ret |-> heap_peek(h)]

pop(data, now) == heap_pop(clear_oldest(data, now))

\* ---- the calls a holder of the queue can make ----
Result(op, now, n, out, b) ==
    [op |-> op, now |-> now, n |-> n, out |-> out, b |-> b]

\* the capacities Vec::with_capacity(capacity) may reserve: at least capacity
with_capacity(capacity) == capacity..MaxCapacity

\* ExpiringQueue::new (capacity 0) and ExpiringQueue::with_capacity; last.n
\* records the capacity asked for
Init ==
    /\ heap = <<>>
    /\ \E capacity \in 0..MaxCapacity :
         /\ cap \in with_capacity(capacity)
         /\ last = Result("new", 0, capacity, None, FALSE)
    /\ max_age \in 0..MaxAge
    /\ clock = 0
    /\ pre = <<>>
    /\ pushes = 0
    /\ newest = None
    /\ drain = <<>>
    /\ sinceClear = FALSE

\* time passes between two calls
Tick ==
    /\ clock < MaxTime
    /\ clock' = clock + 1
    /\ UNCHANGED <<heap, cap, max_age, last, pre, pushes, newest, drain,
                   sinceClear>>

PushUpTo(limit) ==
    /\ pushes < limit
    /\ \E value \in Values :
         LET seq == pushes + 1
             r == push(heap, value, clock, seq)
         IN  /\ heap' = r.heap
             /\ cap' = grow(cap, Len(r.heap) - 1)
             /\ last' = Result("push", clock, r.ret, None, FALSE)
             /\ newest' = Some(QueueElement(clock, value, seq))
    /\ pushes' = pushes + 1
    /\ pre' = heap
    /\ drain' = <<>>
    /\ sinceClear' = FALSE
    /\ UNCHANGED <<max_age, clock>>

Push == PushUpTo(MaxPushes)

Clear ==
    /\ heap' = clear(heap)
    /\ last' = Result("clear", clock, 0, None, FALSE)
    /\ pre' = heap
    /\ sinceClear' = TRUE
    /\ UNCHANGED <<cap, max_age, clock, pushes, newest, drain>>

LenCall ==
    /\ LET r == len(heap, clock)
       IN  /\ heap' = r.heap
           /\ last' = Result("len", clock, r.ret, None, FALSE)
    /\ pre' = heap
    /\ UNCHANGED <<cap, max_age, clock, pushes, newest, drain, sinceClear>>

IsEmpty ==
    /\ LET r == is_empty(heap, clock)
       IN  /\ heap' = r.heap
           /\ last' = Result("is_empty", clock, 0, None, r.ret)
    /\ pre' = heap
    /\ UNCHANGED <<cap, max_age, clock, pushes, newest, drain, sinceClear>>

\* slip: capacity runs the eviction pass like the other accessors
Capacity_evicting ==
    /\ heap' = clear_oldest(heap, clock)
    /\ last' = Result("capacity", clock, cap, None, FALSE)
    /\ pre' = heap
    /\ UNCHANGED <<cap, max_age, clock, pushes, newest, drain, sinceClear>>

Capacity ==
    /\ last' = Result("capacity", clock, cap, None, FALSE)
    /\ pre' = heap
    /\ UNCHANGED <<heap, cap, max_age, clock, pushes, newest, drain,
                   sinceClear>>

MaxAgeCall ==
    /\ last' = Result("max_age", clock, max_age, None, FALSE)
    /\ pre' = heap
    /\ UNCHANGED <<heap, cap, max_age, clock, pushes, newest, drain,
                   sinceClear>>

Peek ==
    /\ LET r == peek(heap, clock)
       IN  /\ heap' = r.heap
           /\ last' = Result("peek", clock, 0, r.ret, FALSE)
    /\ pre' = heap
    /\ UNCHANGED <<cap, max_age, clock, pushes, newest, drain, sinceClear>>

Pop ==
    /\ LET r == pop(heap, clock)
       IN  /\ heap' = r.heap
           /\ last' = Result("pop", clock, 0, r.ret, FALSE)
           /\ drain' = IF r.ret = None THEN drain
                       ELSE Append(drain, (CHOOSE e \in r.ret : TRUE).time)
    /\ pre' = heap
    /\ UNCHANGED <<cap, max_age, clock, pushes, newest, sinceClear>>

Next ==
    \/ Tick
    \/ Push
    \/ Clear
    \/ LenCall
    \/ IsEmpty
    \/ Capacity
    \/ MaxAgeCall
    \/ Peek
    \/ Pop

Spec == Init /\ [][Next]_vars

\* runs of pushes, pops and passing time only, with one more push, so that
\* the heap gets a third level
PushDrain == PushUpTo(MaxDrainPushes)

NextDrain ==
    \/ Tick
    \/ PushDrain
    \/ Pop

SpecDrain == Init /\ [][NextDrain]_vars

\* runs with fewer pushes, for the properties of infinite behaviours
PushLive == PushUpTo(MaxLivePushes)

\* the calls that run the eviction pass
EvictingCall ==
    \/ PushLive
    \/ Pop
    \/ Peek
    \/ LenCall
    \/ IsEmpty

NextLive ==
    \/ Tick
    \/ EvictingCall
    \/ Clear
    \/ Capacity
    \/ MaxAgeCall

\* the clock keeps advancing (up to MaxTime) and an evicting call is made
\* after each advance
SpecLive ==
    Init /\ [][NextLive]_vars /\ WF_vars(Tick) /\ WF_vars(EvictingCall)

\* ---- vocabulary of the properties ----
Evicting == {"push", "pop", "peek", "len", "is_empty"}

\* the elements of S whose age at now is within max_age
Live(S, now) == {e \in S : now - e.time <= max_age}

\* the elements of S with the earliest insertion time
Oldest(S) == {e \in S : \A f \in S : e.time <= f.time}

\* the stored elements that were within max_age when the last call sampled
\* the clock
Survivors == Live(Range(pre), last.now)

\* C1: an element whose age at the time sampled by peek, pop, len or
\* is_empty exceeds max_age is not returned by peek or pop, is not counted by
\* len (the count is the stored elements, none of which is expired) and does
\* not keep is_empty from reporting TRUE.
C1_ExpiredNeverObservable ==
    /\ last.op \in {"peek", "pop"} =>
         /\ last.out \subseteq Range(pre)
         /\ \A e \in last.out : last.now - e.time <= max_age
    /\ last.op = "len" =>
         /\ last.n = Cardinality(Range(heap))
         /\ Range(heap) \subseteq Range(pre)
         /\ \A e \in Range(heap) : last.now - e.time <= max_age
    /\ last.op = "is_empty" =>
         /\ Survivors = {} => last.b
         /\ \A e \in Range(heap) : last.now - e.time <= max_age

\* len ran when two stored elements had expired and one had not
C1_Witness ==
    /\ last.op = "len"
    /\ last.n = 1
    /\ Len(pre) = 3
    /\ Cardinality(Range(pre) \ Survivors) = 2

\* C2: a pushed element is stored, and a stored element whose age at the
\* sampled time is at most max_age (age = max_age included) stays stored
\* through every call except the pop that returns it and clear; len counts
\* every such element, and peek and pop return a value when one exists.
C2_LiveRetained ==
    /\ last.op = "push" => newest \subseteq Range(heap)
    /\ last.op \in Evicting \cup {"capacity", "max_age"} =>
         (Survivors \ (IF last.op = "pop" THEN last.out ELSE {}))
             \subseteq Range(heap)
    /\ last.op = "len" => last.n >= Cardinality(Survivors)
    /\ last.op \in {"peek", "pop"} => (Survivors # {} => last.out # None)
    /\ last.op = "is_empty" => (Survivors # {} => ~last.b)

\* len evicted an older element and kept one whose age is exactly max_age
C2_Witness ==
    /\ last.op = "len"
    /\ max_age >= 1
    /\ Len(heap) < Len(pre)
    /\ \E e \in Range(heap) : last.now - e.time = max_age

\* C3: pop returns the oldest element among those stored whose age at the
\* sampled time is at most max_age, removes exactly that element (and the
\* expired ones), and returns None iff no stored element survives eviction.
C3_PopOldestSurvivor ==
    last.op = "pop" =>
        /\ (last.out = None) <=> (Survivors = {})
        /\ last.out \subseteq Oldest(Survivors)
        /\ Cardinality(last.out) <= 1
        /\ Range(heap) = Survivors \ last.out
        /\ Len(heap) = Cardinality(Survivors \ last.out)

\* pop evicted an expired element and chose between two survivors of
\* different ages
C3_Witness ==
    /\ last.op = "pop"
    /\ Len(pre) = 3
    /\ Len(heap) = 1
    /\ \E e \in last.out : \E f \in Range(heap) : e.time < f.time

\* C4: peek returns the element with the minimum insertion time among the
\* elements surviving eviction, None if there is none, and removes nothing
\* but the expired elements; the root of the heap is always an element with
\* the earliest insertion time of all stored elements.
C4_PeekOldestLive ==
    /\ heap # <<>> => heap[1] \in Oldest(Range(heap))
    /\ last.op = "peek" =>
         /\ (last.out = None) <=> (Survivors = {})
         /\ last.out \subseteq Oldest(Survivors)
         /\ Cardinality(last.out) <= 1
         /\ Range(heap) = Survivors
         /\ Len(heap) = Cardinality(Survivors)

\* peek over three stored elements of which the two younger survive
C4_Witness ==
    /\ last.op = "peek"
    /\ Len(pre) = 3
    /\ Len(heap) = 2
    /\ \E e \in last.out : \E f \in Range(heap) : e.time < f.time

\* C5: push admits the new element and returns the number of previously
\* stored elements whose age at the sampled time is at most max_age, plus
\* one; len called at the same clock value right afterwards returns the same.
C5_PushReturnsLogicalSize ==
    last.op = "push" =>
        /\ last.n = Cardinality(Survivors) + 1
        /\ last.n = len(heap, last.now).ret
        /\ newest # None
        /\ newest \subseteq Range(heap)
        /\ newest \cap Range(pre) = {}
        /\ \A e \in newest : e.time = last.now

\* push evicted one element, kept another and reported two
C5_Witness ==
    /\ last.op = "push"
    /\ Len(pre) = 2
    /\ last.n = 2
    /\ Cardinality(Survivors) = 1

\* C6: the insertion times of the elements returned by successive pops with
\* no push in between never decrease, however the clock moves between them.
C6_MonotoneDrain ==
    \A i \in 1..Len(drain) : \A j \in 1..Len(drain) :
        i < j => drain[i] <= drain[j]

\* two pops in a row returned elements of different insertion times, the
\* second at a later clock value than both
C6_Witness ==
    /\ last.op = "pop"
    /\ last.out # None
    /\ Len(drain) = 2
    /\ drain[1] < drain[2]
    /\ last.now > drain[2]

\* one value has been pushed and it has been neither popped nor cleared
OnePushed == pushes = 1 /\ drain = <<>> /\ ~sinceClear

\* C7 as stated: with one value pushed and max_age = d > 0, len at the time
\* of the push returns 1 and len once the clock has advanced by d returns 0
\* (is_empty: TRUE).
C7_Original ==
    (OnePushed /\ max_age > 0 /\ last.op \in {"len", "is_empty"}) =>
        \A e \in newest :
            /\ (last.now = e.time /\ last.op = "len") => last.n = 1
            /\ (last.now - e.time >= max_age /\ last.op = "len") => last.n = 0
            /\ (last.now - e.time >= max_age /\ last.op = "is_empty") => last.b

\* C7 amended: with one value pushed, len at the time of the push returns 1;
\* once the clock has advanced by more than max_age, len returns 0 and
\* is_empty returns TRUE; at an advance of exactly max_age the element is
\* still counted.
C7_Amended ==
    (OnePushed /\ last.op \in {"len", "is_empty"}) =>
        \A e \in newest :
            /\ (last.now = e.time /\ last.op = "len") => last.n = 1
            /\ (last.now - e.time > max_age /\ last.op = "len") => last.n = 0
            /\ (last.now - e.time > max_age /\ last.op = "is_empty") => last.b
            /\ (last.now - e.time = max_age /\ last.op = "len") => last.n = 1
            /\ (last.now - e.time = max_age /\ last.op = "is_empty") => ~last.b

\* is_empty finds the only element stored, older than a positive max_age,
\* and reports TRUE
C7_Witness ==
    /\ OnePushed
    /\ max_age > 0
    /\ last.op = "is_empty"
    /\ last.b
    /\ newest # None
    /\ newest \subseteq Range(pre)
    /\ \A e \in newest : last.now - e.time > max_age

\* C8 as stated: with max_age = 0, the call of len, is_empty, peek, pop or
\* push that follows push(v) does not count, return or retain v.
C8_Original ==
    [][(/\ max_age = 0
        /\ last.op = "push"
        /\ clock' = clock
        /\ last'.op \in Evicting) =>
            /\ newest \cap Range(heap') = {}
            /\ newest \cap last'.out = {}
            /\ last'.op = "len" => last'.n = 0
            /\ last'.op = "is_empty" => last'.b
            /\ last'.op = "push" => last'.n = 1]_vars

\* C8 amended: with max_age = 0, the call of len, is_empty, peek, pop or push
\* that follows push(v) and samples a later clock value than that push does
\* not count, return or retain v; a call that samples the same clock value
\* still sees v.
C8_Amended ==
    [][(/\ max_age = 0
        /\ last.op = "push"
        /\ clock' = clock
        /\ last'.op \in Evicting) =>
            IF clock > last.now
            THEN /\ newest \cap Range(heap') = {}
                 /\ newest \cap last'.out = {}
                 /\ last'.op = "len" => last'.n = 0
                 /\ last'.op = "is_empty" => last'.b
                 /\ last'.op = "push" => last'.n = 1
            ELSE /\ last'.op \in {"len", "is_empty", "peek", "push"} =>
                      newest \subseteq Range(heap')
                 /\ last'.op = "len" => last'.n >= 1
                 /\ last'.op = "is_empty" => ~last'.b
                 /\ last'.op \in {"peek", "pop"} => last'.out # None
                 /\ last'.op = "push" => last'.n >= 2]_vars

\* with max_age = 0, a call at a later clock value found the newest element
\* stored and evicted it
C8_Witness ==
    /\ max_age = 0
    /\ last.op \in {"len", "is_empty", "peek", "pop"}
    /\ newest # None
    /\ newest \subseteq Range(pre)
    /\ newest \cap Range(heap) = {}
    /\ newest \cap last.out = {}
    /\ \A e \in newest : last.now > e.time

\* C9 as stated: after any call (push, pop, peek, len, is_empty, clear,
\* capacity, max_age) no stored element is older than max_age at the time
\* the call started.
C9_Original ==
    last.op \in Evicting \cup {"clear", "capacity", "max_age"} =>
        \A e \in Range(heap) : last.now - e.time <= max_age

\* C9 amended: after push, pop, peek, len, is_empty or clear no stored
\* element is older than max_age at the time the call started; capacity and
\* max_age leave expired elements stored.
C9_Amended ==
    /\ last.op \in Evicting \cup {"clear"} =>
         \A e \in Range(heap) : last.now - e.time <= max_age
    /\ last.op \in {"capacity", "max_age"} => heap = pre

\* peek found an expired element stored and left a live one
C9_Witness ==
    /\ last.op = "peek"
    /\ Range(pre) # Survivors
    /\ heap # <<>>

\* C10: from a clear until the next push the queue is empty whatever the
\* ages of the elements were: len returns 0, is_empty TRUE, peek and pop
\* None.
C10_ClearEmpties ==
    sinceClear =>
        /\ heap = <<>>
        /\ last.op = "len" => last.n = 0
        /\ last.op = "is_empty" => last.b
        /\ last.op \in {"peek", "pop"} => last.out = None

\* pop finds nothing after a clear although the newest element, never
\* popped, is still within max_age
C10_Witness ==
    /\ sinceClear
    /\ drain = <<>>
    /\ last.op = "pop"
    /\ last.out = None
    /\ newest # None
    /\ \A e \in newest : last.now - e.time <= max_age

\* the number of pop calls in a row, all sampling now, that return a value
RECURSIVE PopCount(_, _)
PopCount(data, now) ==
    LET r == pop(data, now)
    IN  IF r.ret = None THEN 0 ELSE 1 + PopCount(r.heap, now)

\* C11: in every reachable state and at the current clock value the
\* accessors agree: is_empty is TRUE iff len is 0 iff peek returns None iff
\* pop returns None, and the number of pops in a row that return a value is
\* the number len reports (also the number the last len call reported, if
\* the clock has not moved since).
C11_AccessorsAgree ==
    LET n == len(heap, clock).ret
    IN  /\ is_empty(heap, clock).ret <=> (n = 0)
        /\ (peek(heap, clock).ret = None) <=> (n = 0)
        /\ (pop(heap, clock).ret = None) <=> (n = 0)
        /\ PopCount(heap, clock) = n
        /\ (last.op = "len" /\ last.now = clock) => PopCount(heap, clock) = last.n
        /\ (last.op = "is_empty" /\ last.now = clock) =>
               (last.b <=> PopCount(heap, clock) = 0)

\* three elements are stored, one of them expired by now: len and the pop
\* count are both two
C11_Witness ==
    /\ Len(heap) = 3
    /\ len(heap, clock).ret = 2
    /\ PopCount(heap, clock) = 2
    /\ peek(heap, clock).ret # None

\* whether a len or is_empty result says the queue is empty
SaysEmpty(l) == IF l.op = "is_empty" THEN l.b ELSE l.n = 0

\* two results of len or is_empty are the same result
SameResult(l, m) ==
    /\ SaysEmpty(l) <=> SaysEmpty(m)
    /\ (l.op = "len" /\ m.op = "len") => l.n = m.n

\* C12 as stated: a len or is_empty call that follows a len or is_empty call
\* with only time passing in between, no more than max_age of it, returns
\* the same result.
C12_Original ==
    [][(/\ last.op \in {"len", "is_empty"}
        /\ last'.op \in {"len", "is_empty"}
        /\ clock' = clock
        /\ clock - last.now <= max_age) => SameResult(last, last')]_vars

\* C12 amended: a len or is_empty call that follows a len or is_empty call
\* with only time passing in between returns the same result provided no
\* stored element's age has passed max_age meanwhile (in particular when no
\* time has passed); and no step other than a push, a pop that returns a
\* value, a clear, or time carrying an element past max_age changes the
\* number len would report.
C12_Amended ==
    [][/\ (/\ last.op \in {"len", "is_empty"}
           /\ last'.op \in {"len", "is_empty"}
           /\ clock' = clock
           /\ Live(Range(heap), clock) = Range(heap))
              => SameResult(last, last')
       /\ (/\ pushes' = pushes
           /\ drain' = drain
           /\ last'.op = "clear" => last' = last
           /\ Live(Range(heap), clock') = Live(Range(heap), clock))
              => len(heap', clock').ret = len(heap, clock).ret]_vars

\* len reports the same two elements as the len call before it, one tick
\* earlier
C12_Witness ==
    /\ last.op = "len"
    /\ last.n = 2
    /\ Len(pre) = 2
    /\ \A e \in Range(pre) : last.now > e.time
    /\ \E e \in Range(pre) : last.now - e.time = max_age

\* C13: capacity and max_age are pure reads: the step of either call leaves
\* the stored elements (expired ones included), the capacity and max_age as
\* they were; max_age never changes in any step, and the max_age call
\* returns it.
C13_PureReads ==
    [][/\ max_age' = max_age
       /\ last'.op \in {"capacity", "max_age"} =>
            /\ heap' = heap
            /\ cap' = cap
       /\ last'.op = "max_age" => last'.n = max_age
       /\ last'.op = "capacity" => last'.n = cap]_vars

\* capacity was called with an expired element stored and left it stored
C13_Witness ==
    /\ last.op = "capacity"
    /\ heap # <<>>
    /\ \E e \in Range(heap) : last.now - e.time > max_age

\* C14: an element's life is one-way. Only a push adds an element to the
\* heap and the element it adds has never been stored before (its seq is
\* new); no element is stored twice; the element pop returns was stored and
\* is stored no longer, and was not evicted (its age is within max_age
\* while every other element the call removed is older); peek returns and
\* len counts stored elements only.
C14_OneWayLifecycle ==
    [][/\ \A e \in Range(heap') \ Range(heap) :
            e.seq = pushes + 1 /\ pushes' = pushes + 1
       /\ \A e \in Range(heap) : e.seq <= pushes
       /\ Len(heap') = Cardinality(Range(heap'))
       /\ (last'.op = "pop" /\ clock' = clock) =>
            /\ last'.out \subseteq Range(heap) \ Range(heap')
            /\ \A e \in last'.out : clock - e.time <= max_age
            /\ \A e \in (Range(heap) \ Range(heap')) \ last'.out :
                   clock - e.time > max_age
       /\ (last'.op = "peek" /\ clock' = clock) =>
            last'.out \subseteq Range(heap) \cap Range(heap')
       /\ (last'.op = "len" /\ clock' = clock) =>
            /\ Range(heap') \subseteq Range(heap)
            /\ last'.n = Cardinality(Range(heap'))]_vars

\* one pop call evicted an element and returned another, leaving nothing
C14_Witness ==
    /\ last.op = "pop"
    /\ last.out # None
    /\ Len(pre) = 2
    /\ heap = <<>>

\* C15: the capacity is a hint, not a bound. Right after construction the
\* capacity is at least the one asked for; every push, whatever the
\* capacity, raises the number len reports at that clock value by exactly
\* one and returns it, so n pushes with no time elapsed give len = n; the
\* capacity covers the stored elements and never shrinks.
C15_CapacityIsHint ==
    [][/\ last.op = "new" => cap >= last.n
       /\ pushes' = pushes + 1 =>
            /\ len(heap', clock').ret = len(heap, clock).ret + 1
            /\ last'.n = len(heap, clock).ret + 1
            /\ newest' \subseteq Range(heap')
       /\ cap' >= Len(heap')
       /\ cap' >= cap]_vars

\* more elements than any capacity that could have been asked for were
\* pushed with no time elapsed, and all are stored
C15_Witness ==
    /\ last.op = "push"
    /\ clock = 0
    /\ pushes > MaxCapacity
    /\ Len(heap) = pushes
    /\ last.n = pushes

\* C16: one pass from the root is exact. Run on the stored heap with the
\* current or any later clock value, clear_oldest leaves exactly the stored
\* elements whose age is at most max_age, each once; so does every len,
\* is_empty and peek call.
C16_EvictionExact ==
    /\ \A t \in clock..MaxTime :
         LET h == clear_oldest(heap, t)
         IN  /\ Range(h) = Live(Range(heap), t)
             /\ Len(h) = Cardinality(Live(Range(heap), t))
    /\ last.op \in {"len", "is_empty", "peek"} => Range(heap) = Survivors

\* is_empty evicted two of three stored elements and kept the third
C16_Witness ==
    /\ last.op = "is_empty"
    /\ ~last.b
    /\ Len(pre) = 3
    /\ Len(heap) = 1

\* C17: push evicts with the clock value it sampled, before inserting, and
\* stamps the new element with that value: after a push the heap holds the
\* survivors of the eviction plus the new element, the new element carries
\* the sampled time and is stored whatever max_age is, and the returned size
\* is at least 1.
C17_PushOneSample ==
    last.op = "push" =>
        /\ newest # None
        /\ \A e \in newest : e.time = last.now /\ e.seq = pushes
        /\ newest \subseteq Range(heap)
        /\ Range(heap) \ newest = Survivors
        /\ last.n >= 1
        /\ last.n = Len(heap)

\* with max_age = 0 a push at a later clock value evicted what was stored
\* and kept its own element
C17_Witness ==
    /\ max_age = 0
    /\ last.op = "push"
    /\ last.n = 1
    /\ pre # <<>>
    /\ newest \subseteq Range(heap)

\* C18: pop called at the clock value of a peek, with nothing in between,
\* returns the element peek returned, also when other stored elements have
\* the same insertion time; in every state peek and pop at the current clock
\* value would return the same element.
C18_PeekPopAgree ==
    /\ peek(heap, clock).ret = pop(heap, clock).ret
    /\ (last.op = "peek" /\ last.now = clock) =>
           pop(heap, clock).ret = last.out

\* peek has just returned one of three stored elements that share an
\* insertion time
C18_Witness ==
    /\ last.op = "peek"
    /\ last.now = clock
    /\ Len(heap) = 3
    /\ \A e \in last.out : \A f \in Range(heap) : f.time = e.time

\* C19 as stated: when pop returns y, no element pushed before y is still
\* stored (live), also when the two pushes sampled the same clock value.
C19_Original ==
    last.op = "pop" =>
        \A y \in last.out : \A x \in Range(heap) : x.seq > y.seq

\* C19 amended: stored elements are in push order by time; when pop returns
\* y, no element pushed at an earlier clock value than y is still stored;
\* an element pushed before y that is still stored was pushed at the same
\* clock value as y (elements of equal insertion time come out in either
\* order).
C19_Amended ==
    /\ \A x \in Range(heap) : \A y \in Range(heap) :
         x.seq < y.seq => x.time <= y.time
    /\ last.op = "pop" =>
         \A y \in last.out : \A x \in Range(heap) :
             /\ x.time >= y.time
             /\ x.seq < y.seq => x.time = y.time

\* pop chose among four stored elements, two of them as old as the one it
\* returned and one younger
C19_Witness ==
    /\ last.op = "pop"
    /\ Len(pre) = 4
    /\ Len(heap) = 3
    /\ \E y \in last.out :
         /\ \E x \in Range(heap) : x.time > y.time
         /\ \E x \in Range(heap) : x.time = y.time

\* the stored elements that the clock can still outrun: MaxTime is more than
\* max_age after their push
Doomed == {e \in Range(heap) : MaxTime - e.time > max_age}

====
